---- MODULE Spec2Model ----
(***************************************************************************)
(* fmga: genetic-algorithm maximisation of an objective function.          *)
(* Model of function_maximize.py: weighted_choice, Point, Population,      *)
(* crossover, maximize and minimize.                                       *)
(*                                                                         *)
(* Reals are modelled exactly, on a grid.  uniform(0, 1) draws j/Resolution *)
(* for j in 0..Resolution-1 (0 included, 1 excluded, as random.uniform);   *)
(* uniform(lo, hi) draws one of UniformSamples(lo, hi).  Weights 1/(1+r)   *)
(* are kept as the integers WeightScale/(1+r) and a diversity d as the     *)
(* integer size*d: weighted_choice normalises its weights and the ranking  *)
(* only compares diversities, so both scalings leave every result the same.*)
(* Floating-point rounding is not modelled.                                *)
(***************************************************************************)
EXTENDS Integers, Sequences, FiniteSets, TLC

\* ---------------------------------------------------------------- bounds
MaxSize == 3
MaxIterations == 2
Resolution == 4
MaxCoordinate == 2

\* ------------------------------------------------------- sampled inputs
Dimensions == {2}
MutationRanges == {1}
\* elite_fraction and mutation_probability as fractions <<numerator, denominator>>
EliteFractions == {<<-1, 2>>, <<0, 1>>, <<2, 3>>, <<1, 1>>, <<3, 2>>}
MutationProbabilities == {<<-1, 2>>, <<1, 2>>, <<3, 2>>}
Verbosities == {0, 3}
Objectives == {"peak"}
BoundPairs == {<<0, 1>>, <<2, 1>>}
DefaultBoundary == <<0, 100>>
\* converge(0) and converge(MaxIterations): the runs of every count between
\* are the prefixes of the longer one
IterationCounts == {0, MaxIterations}
WcWeightValues == 0..2
WcMaxLen == 3

\* Python's None (weighted_choice falling off its loop), and the sentinel
\* rank of a Point that was never ranked
None == -1
Unranked == -1

\* ---------------------------------------------------------------- helpers
RECURSIVE SumSeq(_)
SumSeq(s) == IF s = <<>> THEN 0 ELSE Head(s) + SumSeq(Tail(s))

RECURSIVE LcmUpTo(_)
LcmUpTo(n) == IF n <= 1 THEN 1
              ELSE LET l == LcmUpTo(n - 1)
                   IN  CHOOSE x \in 1..(l * n) :
                         /\ x % l = 0 /\ x % n = 0
                         /\ \A y \in 1..(x - 1) : ~(y % l = 0 /\ y % n = 0)

Abs(x) == IF x < 0 THEN -x ELSE x
PyMin(a, b) == IF b < a THEN b ELSE a
PyMax(a, b) == IF b > a THEN b ELSE a

\* list.sort(key=..., reverse=...): stable in both directions.  keys[i] is
\* the key of s[i]; element i lands after every element that sorts strictly
\* before it and after the equal-keyed elements that preceded it.
SortPosition(keys, i, reverse) ==
    1 + Cardinality({j \in 1..Len(keys) :
                        \/ (IF reverse THEN keys[j] > keys[i] ELSE keys[j] < keys[i])
                        \/ (keys[j] = keys[i] /\ j < i)})

SortByKey(s, keys, reverse) ==
    [r \in 1..Len(s) |->
        s[CHOOSE i \in 1..Len(s) : SortPosition(keys, i, reverse) = r]]

\* random.uniform(lo, hi) on the grid
UniformSamples(lo, hi) == {lo, hi}

\* random.uniform(0, 1) as the numerator of j/Resolution
UnitDraws == 0..(Resolution - 1)

\* ------------------------------------------------------- weighted_choice
RECURSIVE WeightedChoiceLoop(_, _, _, _, _, _)
WeightedChoiceLoop(choices, weights, total_weight, threshold, index, cum) ==
    IF index > Len(weights) THEN None
    ELSE LET c == cum + weights[index]
         IN  \* total = 1 - c/total_weight ;  total < threshold/Resolution
             IF total_weight > 0
                /\ (total_weight - c) * Resolution < threshold * total_weight
             THEN choices[index]
             ELSE WeightedChoiceLoop(choices, weights, total_weight, threshold,
                                     index + 1, c)

WeightedChoice(choices, weights, threshold) ==
    WeightedChoiceLoop(choices, weights, SumSeq(weights), threshold, 1, 0)

\* ------------------------------------------------------------------ Point
NewPoint(coords) ==
    [coordinates |-> coords, fitness |-> 0, diversity |-> 0,
     fitness_rank |-> Unranked, diversity_rank |-> Unranked]

\* the user's objective f, a deterministic function of the coordinates:
\* "peak" is -((x1 - 1)^2 + ... + (xD - 1)^2)
ObjectiveValue(f, coords) ==
    -SumSeq([d \in 1..Len(coords) |-> (coords[d] - 1) * (coords[d] - 1)])

\* the callable a Population holds: f, or minimize's objective_function_neg
CallObjective(fn, coords) ==
    IF fn.neg THEN -ObjectiveValue(fn.f, coords) ELSE ObjectiveValue(fn.f, coords)

EvaluateFitness(point, fn) ==
    [point EXCEPT !.fitness = CallObjective(fn, point.coordinates)]

ClampNone(x, lo, hi) == x

\* lines 66-67 of Point.mutate, as written
Clamp(x, lo, hi) == PyMax(hi, PyMin(lo, x))

MutatePoint(point, bnds, index, delta) ==
    [point EXCEPT !.coordinates[index] =
        Clamp(@ + delta, bnds[index][1], bnds[index][2])]

\* -------------------------------------------------------------- ranking
EvaluateFitnessRanksAscending(pts, valid) ==
    IF valid THEN pts
    ELSE LET sorted == SortByKey(pts, [i \in 1..Len(pts) |-> pts[i].fitness], FALSE)
         IN  [r \in 1..Len(pts) |-> [sorted[r] EXCEPT !.fitness_rank = r - 1]]

\* Population.__evaluate_fitness_ranks, on the list of points
EvaluateFitnessRanks(pts, valid) ==
    IF valid THEN pts
    ELSE LET sorted == SortByKey(pts, [i \in 1..Len(pts) |-> pts[i].fitness], TRUE)
         IN  [r \in 1..Len(pts) |-> [sorted[r] EXCEPT !.fitness_rank = r - 1]]

\* size * (L1 distance of coords from the mean coordinates of pts)
Diversity(pts, coords) ==
    SumSeq([d \in 1..Len(coords) |->
        Abs(Len(pts) * coords[d]
            - SumSeq([i \in 1..Len(pts) |-> pts[i].coordinates[d]]))])

\* Population.__evaluate_diversity_ranks, on the list of points
EvaluateDiversityRanks(pts, valid) ==
    IF valid THEN pts
    ELSE LET measured == [i \in 1..Len(pts) |->
                 [pts[i] EXCEPT !.diversity = Diversity(pts, pts[i].coordinates)]]
             sorted == SortByKey(measured,
                                 [i \in 1..Len(pts) |-> measured[i].diversity], TRUE)
         IN  [r \in 1..Len(pts) |-> [sorted[r] EXCEPT !.diversity_rank = r - 1]]

\* ------------------------------------------------------------- crossover
\* randint(1, np.size(point1.coordinates)): both ends inclusive
SplitPoints(D) == 1..D

\* the two children of crossover(point1, point2) for a drawn splitpoint
Crossover(c1, c2, splitpoint) ==
    <<NewPoint(SubSeq(c1, 1, splitpoint) \o SubSeq(c2, splitpoint + 1, Len(c2))),
      NewPoint(SubSeq(c2, 1, splitpoint) \o SubSeq(c1, splitpoint + 1, Len(c1)))>>

\* ------------------------------------------------------------------ state
VARIABLES
    pc,                        \* position of the driver
    objective_function,        \* [f, neg]: the callable the Population holds
    num_dimensions, size, elite_population_size,
    mutation_probability, mutation_range, boundaries,
    points,                    \* self.points
    evaluated_fitness_ranks, evaluated_diversity_ranks,
    num_iterations,
    iterations, iteration,     \* converge(iterations) and its loop variable
    newpopulation, parent1, parent2, splitpoint, children,   \* __breed
    pointnumber,               \* __mutate: position in self.points
    mutated,                   \* the last Point.mutate(): whose, which index
    drawn,                     \* and, for a Point mutated on its own, the draw
    evaluated,                 \* positions the last batch evaluation wrote
    best_point,                \* what maximize / minimize returned
    args,                      \* the arguments Population(...) was called with
    wcWeights, wcThreshold, wcResult   \* a direct call of weighted_choice

popVars == <<objective_function, num_dimensions, size, elite_population_size,
             mutation_probability, mutation_range, boundaries>>
breedVars == <<newpopulation, parent1, parent2, splitpoint, children>>
flagVars == <<evaluated_fitness_ranks, evaluated_diversity_ranks>>
loopVars == <<iterations, iteration, num_iterations>>
wcVars == <<wcWeights, wcThreshold, wcResult>>
aloneVars == <<drawn, wcVars>>
vars == <<pc, popVars, points, flagVars, loopVars, breedVars, pointnumber,
          mutated, evaluated, best_point, args, aloneVars>>

NoMutation == [position |-> 0, index |-> 0]
NoDraw == [old |-> 0, delta |-> 0]

Unconstructed ==
    /\ objective_function = [f |-> "peak", neg |-> FALSE]
    /\ num_dimensions = 0 /\ size = 0 /\ elite_population_size = 0
    /\ mutation_probability = <<0, 1>> /\ mutation_range = 0 /\ boundaries = <<>>
    /\ points = <<>>
    /\ evaluated_fitness_ranks = FALSE /\ evaluated_diversity_ranks = FALSE
    /\ num_iterations = 0 /\ iterations = 0 /\ iteration = 0
    /\ newpopulation = <<>> /\ parent1 = None /\ parent2 = None
    /\ splitpoint = 0 /\ children = <<>>
    /\ pointnumber = 0 /\ mutated = NoMutation /\ drawn = NoDraw
    /\ evaluated = {} /\ best_point = <<>> /\ args = <<>>

Init ==
    /\ pc = "start"
    /\ Unconstructed
    /\ wcWeights = <<>> /\ wcThreshold = 0 /\ wcResult = None

\* ----------------------------------------------------- Population.__init__
\* the list the caller may pass as boundaries (None is the empty list here:
\* both are padded with the default for every dimension)
SuppliedBoundaries(D) ==
    UNION {[1..n -> BoundPairs] : n \in 0..D}

PadBoundaries(b, D) ==
    [d \in 1..(IF Len(b) > D THEN Len(b) ELSE D) |->
        IF d <= Len(b) THEN b[d] ELSE DefaultBoundary]

\* fraction > 1.0, fraction < 0.0
AboveOne(fraction) == fraction[1] > fraction[2]
BelowZero(fraction) == fraction[1] < 0

InvalidParametersBoundsUnchecked(elite_fraction, mut_prob, verbose, padded) ==
    \/ AboveOne(elite_fraction) \/ BelowZero(elite_fraction)
    \/ AboveOne(mut_prob) \/ BelowZero(mut_prob)
    \/ verbose \notin {0, 1, 2}

\* lines 80-87 and 110-112: the parameter checks that raise ValueError
InvalidParameters(elite_fraction, mut_prob, verbose, padded) ==
    \/ AboveOne(elite_fraction) \/ BelowZero(elite_fraction)
    \/ AboveOne(mut_prob) \/ BelowZero(mut_prob)
    \/ verbose \notin {0, 1, 2}
    \/ \E d \in 1..Len(padded) : padded[d][1] > padded[d][2]

\* every list of N random points within the boundaries
RandomPoints(N, D, bnds) ==
    [1..N -> {NewPoint(c) : c \in
        {c \in [1..D -> UNION {UniformSamples(bnds[d][1], bnds[d][2]) : d \in 1..D}] :
            \A d \in 1..D : c[d] \in UniformSamples(bnds[d][1], bnds[d][2])}}]

EvalPositionsNonElite(pts) == (elite_population_size + 1)..Len(pts)

\* `for point in self.points: point.evaluate_fitness(...)`: who is evaluated
EvalPositions(pts) == 1..Len(pts)

EvaluateAll(pts, fn) ==
    [i \in 1..Len(pts) |->
        IF i \in EvalPositions(pts) THEN EvaluateFitness(pts[i], fn) ELSE pts[i]]

\* int(elite_fraction * self.size)
EliteSize(elite_fraction, N) == (elite_fraction[1] * N) \div elite_fraction[2]

CallArgs(ef, mp, v, b) ==
    [elite_fraction |-> ef, mutation_probability |-> mp, verbose |-> v,
     boundaries |-> b]

\* Population(...) raising ValueError out of lines 80-112
ConstructFail ==
    /\ pc = "start"
    /\ \E D \in Dimensions :
       \E b \in SuppliedBoundaries(D),
          ef \in EliteFractions, mp \in MutationProbabilities, v \in Verbosities :
          /\ InvalidParameters(ef, mp, v, PadBoundaries(b, D))
          /\ args' = CallArgs(ef, mp, v, b)
    /\ pc' = "error"
    /\ UNCHANGED <<popVars, points, flagVars, loopVars, breedVars, pointnumber,
                   mutated, evaluated, best_point, aloneVars>>

\* Population(...) succeeding, called by maximize(f, ...) with neg = FALSE
\* and by minimize(f, ...), through maximize(objective_function_neg, ...),
\* with neg = TRUE
Construct(neg) ==
    /\ pc = "start"
    /\ \E D \in Dimensions :
       \E f \in Objectives, N \in 1..MaxSize,
          b \in SuppliedBoundaries(D), ef \in EliteFractions,
          mp \in MutationProbabilities, mr \in MutationRanges,
          v \in Verbosities, n \in IterationCounts :
          LET padded == PadBoundaries(b, D)
              fn == [f |-> f, neg |-> neg]
          IN  /\ ~InvalidParameters(ef, mp, v, padded)
              /\ args' = CallArgs(ef, mp, v, b)
              /\ objective_function' = fn
              /\ num_dimensions' = D
              /\ size' = N
              /\ elite_population_size' = EliteSize(ef, N)
              /\ mutation_probability' = mp
              /\ mutation_range' = mr
              /\ boundaries' = padded
              /\ iterations' = n
              /\ \E created \in RandomPoints(N, D, padded) :
                    /\ points' = EvaluateDiversityRanks(
                                 EvaluateFitnessRanks(EvaluateAll(created, fn), FALSE),
                                 FALSE)
                    /\ evaluated' = EvalPositions(created)
    /\ evaluated_fitness_ranks' = TRUE
    /\ evaluated_diversity_ranks' = TRUE
    /\ num_iterations' = 1
    /\ iteration' = 0
    /\ pc' = "converge"
    /\ UNCHANGED <<breedVars, pointnumber, mutated, best_point, aloneVars>>

\* ------------------------------------------------------ Population.__breed
WeightScale == LcmUpTo(2 * MaxSize)

\* 1 / (1 + fitness_rank + diversity_rank), times WeightScale
Weights(pts) ==
    [i \in 1..Len(pts) |->
        WeightScale \div (1 + pts[i].fitness_rank + pts[i].diversity_rank)]

\* list(range(self.size))
Choices(N) == [i \in 1..N |-> i - 1]

ElitesWorst(sorted, count) == SubSeq(sorted, Len(sorted) - count + 1, Len(sorted))

\* lines 193-195: the first elite_population_size points of the sorted list
Elites(sorted, count) == SubSeq(sorted, 1, count)

\* lines 190-198, and the first test of the while of line 201
BreedStart ==
    /\ pc = "converge"
    /\ iteration < iterations
    /\ iteration' = iteration + 1
    /\ points' = SortByKey(points,
                           [i \in 1..Len(points) |-> points[i].fitness_rank], FALSE)
    /\ newpopulation' = Elites(points', elite_population_size)
    /\ parent1' = None /\ parent2' = None /\ splitpoint' = 0 /\ children' = <<>>
    /\ pc' = IF Len(newpopulation') < size THEN "select" ELSE "evaluate"
    /\ UNCHANGED <<popVars, flagVars, iterations, num_iterations, pointnumber,
                   mutated, evaluated, best_point, args, aloneVars>>

\* what weighted_choice(list(range(self.size)), weights) can return
ParentDraws ==
    {WeightedChoice(Choices(size), Weights(points), t) : t \in UnitDraws}

\* lines 202-203 or 207-208: one pair of draws, and the test of line 206
DrawParents(p1, p2) ==
    /\ parent1' = p1
    /\ parent2' = p2
    /\ pc' = IF p1 = p2 THEN "select" ELSE "cross"
    /\ UNCHANGED <<popVars, points, flagVars, loopVars, newpopulation, splitpoint,
                   children, pointnumber, mutated, evaluated, best_point, args,
                   aloneVars>>

\* a pair the while of line 206 rejects
DrawEqual ==
    /\ pc = "select"
    /\ \E p1, p2 \in ParentDraws : p1 = p2 /\ DrawParents(p1, p2)

\* a pair that leaves the while of line 206
DrawDistinct ==
    /\ pc = "select"
    /\ \E p1, p2 \in ParentDraws : p1 # p2 /\ DrawParents(p1, p2)

\* line 211 with a parent that is None: self.points[None] raises TypeError
BreedAbort ==
    /\ pc = "cross"
    /\ (parent1 = None \/ parent2 = None)
    /\ pc' = "aborted"
    /\ UNCHANGED <<popVars, points, flagVars, loopVars, breedVars, pointnumber,
                   mutated, evaluated, best_point, args, aloneVars>>

\* lines 211-216, and the next test of the while of line 201
BreedCrossover ==
    /\ pc = "cross"
    /\ parent1 # None /\ parent2 # None
    /\ \E k \in SplitPoints(num_dimensions) :
          /\ splitpoint' = k
          /\ children' = Crossover(points[parent1 + 1].coordinates,
                                   points[parent2 + 1].coordinates, k)
    /\ newpopulation' =
          IF Len(newpopulation) + 1 < size
          THEN newpopulation \o children'
          ELSE Append(newpopulation, children'[1])
    /\ pc' = IF Len(newpopulation') < size THEN "select" ELSE "evaluate"
    /\ UNCHANGED <<popVars, points, flagVars, loopVars, parent1, parent2,
                   pointnumber, mutated, evaluated, best_point, args, aloneVars>>

\* lines 219-234
BreedFinish ==
    /\ pc = "evaluate"
    /\ points' = EvaluateAll(newpopulation, objective_function)
    /\ evaluated' = EvalPositions(newpopulation)
    /\ evaluated_fitness_ranks' = FALSE
    /\ evaluated_diversity_ranks' = FALSE
    /\ newpopulation' = <<>> /\ parent1' = None /\ parent2' = None
    /\ splitpoint' = 0 /\ children' = <<>>
    /\ pointnumber' = 1
    /\ pc' = "mutate"
    /\ UNCHANGED <<popVars, loopVars, mutated, best_point, args, aloneVars>>

\* ----------------------------------------------------- Population.__mutate
\* uniform(0, 1) < self.mutation_probability
MutationDrawn(u) ==
    u * mutation_probability[2] < mutation_probability[1] * Resolution

AfterPoint == IF pointnumber = size THEN "rank" ELSE "mutate"

\* line 240 false for the point at pointnumber
MutateSkip ==
    /\ pc = "mutate"
    /\ \E u \in UnitDraws : ~MutationDrawn(u)
    /\ pointnumber' = pointnumber + 1
    /\ mutated' = NoMutation
    /\ pc' = AfterPoint
    /\ UNCHANGED <<popVars, points, flagVars, loopVars, breedVars, evaluated,
                   best_point, args, aloneVars>>

\* lines 241-245 for the point at pointnumber
MutateApply ==
    /\ pc = "mutate"
    /\ \E u \in UnitDraws : MutationDrawn(u)
    /\ \E index \in 1..num_dimensions, delta \in (-mutation_range)..mutation_range :
          /\ points' = [points EXCEPT ![pointnumber] =
                 EvaluateFitness(MutatePoint(@, boundaries, index, delta),
                                 objective_function)]
          /\ mutated' = [position |-> pointnumber, index |-> index]
    /\ evaluated_fitness_ranks' = FALSE
    /\ evaluated_diversity_ranks' = FALSE
    /\ pointnumber' = pointnumber + 1
    /\ pc' = AfterPoint
    /\ UNCHANGED <<popVars, loopVars, breedVars, evaluated, best_point, args, aloneVars>>

\* ------------------------------------------------- the rest of iterate()
RankFitness ==
    /\ pc = "rank"
    /\ points' = EvaluateFitnessRanks(points, evaluated_fitness_ranks)
    /\ evaluated_fitness_ranks' = TRUE
    /\ mutated' = NoMutation
    /\ pointnumber' = 0
    /\ pc' = "rankdiversity"
    /\ UNCHANGED <<popVars, evaluated_diversity_ranks, loopVars, breedVars,
                   evaluated, best_point, args, aloneVars>>

RankDiversity ==
    /\ pc = "rankdiversity"
    /\ points' = EvaluateDiversityRanks(points, evaluated_diversity_ranks)
    /\ evaluated_diversity_ranks' = TRUE
    /\ num_iterations' = num_iterations + 1
    /\ pc' = "converge"
    /\ UNCHANGED <<popVars, evaluated_fitness_ranks, iterations, iteration,
                   breedVars, pointnumber, mutated, evaluated, best_point, args,
                   aloneVars>>

\* --------------------------------------- best_estimate, maximize, minimize
BestEstimateLeast(pts) ==
    CHOOSE i \in 1..Len(pts) :
        /\ \A j \in 1..Len(pts) : pts[j].fitness >= pts[i].fitness
        /\ \A j \in 1..(i - 1) : pts[j].fitness > pts[i].fitness

\* position of the first point of strictly greatest fitness
BestEstimate(pts) ==
    CHOOSE i \in 1..Len(pts) :
        /\ \A j \in 1..Len(pts) : pts[j].fitness <= pts[i].fitness
        /\ \A j \in 1..(i - 1) : pts[j].fitness < pts[i].fitness

\* converge() has run out of iterations and maximize() returns
\* population.best_estimate()
ReturnMaximize ==
    /\ pc = "converge"
    /\ iteration = iterations
    /\ ~objective_function.neg
    /\ best_point' = points[BestEstimate(points)]
    /\ points' = points
    /\ pc' = "done"
    /\ UNCHANGED <<popVars, flagVars, loopVars, breedVars, pointnumber, mutated,
                   evaluated, args, aloneVars>>

\* the same within minimize(), which re-evaluates the point it got with the
\* objective itself (line 324); the point is still a member of the population
ReturnMinimize ==
    /\ pc = "converge"
    /\ iteration = iterations
    /\ objective_function.neg
    /\ LET b == BestEstimate(points)
           original == [f |-> objective_function.f, neg |-> FALSE]
       IN  /\ points' = [points EXCEPT ![b] = EvaluateFitness(@, original)]
           /\ best_point' = points'[b]
    /\ pc' = "done"
    /\ UNCHANGED <<popVars, flagVars, loopVars, breedVars, pointnumber, mutated,
                   evaluated, args, aloneVars>>

ConstructMaximize == Construct(FALSE)
ConstructMinimize == Construct(TRUE)

\* the steps of Population.iterate() within converge()
Iterate ==
    \/ BreedStart
    \/ DrawEqual
    \/ DrawDistinct
    \/ BreedAbort
    \/ BreedCrossover
    \/ BreedFinish
    \/ MutateSkip
    \/ MutateApply
    \/ RankFitness
    \/ RankDiversity

\* maximize(f, ...)
Next ==
    \/ ConstructFail
    \/ ConstructMaximize
    \/ Iterate
    \/ ReturnMaximize

Spec == Init /\ [][Next]_vars

\* minimize(f, ...)
NextMinimize ==
    \/ ConstructFail
    \/ ConstructMinimize
    \/ Iterate
    \/ ReturnMinimize

SpecMinimize == Init /\ [][NextMinimize]_vars

\* the draws are fair: a pair of distinct parents that stays possible is
\* drawn in the end, and every other step is taken when it is due
FairSpec == Spec /\ WF_vars(Next) /\ SF_vars(DrawDistinct)

\* ------------------------------------- weighted_choice called on its own
WeightVectors == UNION {[1..n -> WcWeightValues] : n \in 1..WcMaxLen}

InitWC ==
    /\ pc = "weighted_choice"
    /\ Unconstructed
    /\ wcWeights \in WeightVectors
    /\ wcThreshold \in UnitDraws
    /\ wcResult = None

CallWeightedChoice ==
    /\ pc = "weighted_choice"
    /\ wcResult' = WeightedChoice(Choices(Len(wcWeights)), wcWeights, wcThreshold)
    /\ pc' = "returned"
    /\ UNCHANGED <<popVars, points, flagVars, loopVars, breedVars, pointnumber,
                   mutated, drawn, evaluated, best_point, args, wcWeights,
                   wcThreshold>>

NextWC == CallWeightedChoice

SpecWC == InitWC /\ [][NextWC]_vars

\* ------------------------------------------- Point.mutate called on its own
BoundaryPairs ==
    {b \in (0..MaxCoordinate) \X (0..MaxCoordinate) : b[1] <= b[2]}

\* a Point of a population with any boundaries, anywhere within them
InitMutate ==
    /\ pc = "point"
    /\ objective_function = [f |-> "peak", neg |-> FALSE]
    /\ num_dimensions \in Dimensions
    /\ size = 0 /\ elite_population_size = 0 /\ mutation_probability = <<0, 1>>
    /\ mutation_range \in 1..MaxCoordinate
    /\ boundaries \in [1..num_dimensions -> BoundaryPairs]
    /\ \E c \in [1..num_dimensions -> 0..MaxCoordinate] :
          /\ \A d \in 1..num_dimensions :
                boundaries[d][1] <= c[d] /\ c[d] <= boundaries[d][2]
          /\ points = <<NewPoint(c)>>
    /\ evaluated_fitness_ranks = FALSE /\ evaluated_diversity_ranks = FALSE
    /\ num_iterations = 0 /\ iterations = 0 /\ iteration = 0
    /\ newpopulation = <<>> /\ parent1 = None /\ parent2 = None
    /\ splitpoint = 0 /\ children = <<>>
    /\ pointnumber = 0 /\ mutated = NoMutation /\ drawn = NoDraw
    /\ evaluated = {} /\ best_point = <<>> /\ args = <<>>
    /\ wcWeights = <<>> /\ wcThreshold = 0 /\ wcResult = None

CallMutate ==
    /\ pc = "point"
    /\ \E index \in 1..num_dimensions, delta \in (-mutation_range)..mutation_range :
          /\ points' = <<MutatePoint(points[1], boundaries, index, delta)>>
          /\ mutated' = [position |-> 1, index |-> index]
          /\ drawn' = [old |-> points[1].coordinates[index], delta |-> delta]
    /\ pc' = "mutated"
    /\ UNCHANGED <<popVars, flagVars, loopVars, breedVars, pointnumber, evaluated,
                   best_point, args, wcVars>>

NextMutate == CallMutate

SpecMutate == InitMutate /\ [][NextMutate]_vars

\* ====================================================================
\* Properties
\* ====================================================================
InBounds(point) ==
    \A d \in 1..num_dimensions :
        /\ boundaries[d][1] <= point.coordinates[d]
        /\ point.coordinates[d] <= boundaries[d][2]

\* C1: once a Population is constructed, every candidate it holds (the
\* members, and the next generation while it is being bred) has every
\* coordinate within the boundaries of its dimension, through any number of
\* iterate() calls.
C1_WithinBounds ==
    /\ \A i \in 1..Len(points) : InBounds(points[i])
    /\ \A i \in 1..Len(newpopulation) : InBounds(newpopulation[i])

\* a mutation applied in a generation that was bred by crossover
C1_Witness ==
    /\ mutated.position # 0
    /\ num_iterations >= 2
    /\ elite_population_size < size
    /\ boundaries[mutated.index] # DefaultBoundary

\* min(upper, max(lower, x))
ClampInto(x, lo, hi) == PyMin(hi, PyMax(lo, x))

\* C2: Point.mutate() leaves the selected coordinate at
\* clamp(old + delta, lower, upper), so at old + delta itself when that lies
\* within the boundaries.
C2_MutateClamps ==
    pc = "mutated" =>
        points[mutated.position].coordinates[mutated.index]
            = ClampInto(drawn.old + drawn.delta,
                        boundaries[mutated.index][1], boundaries[mutated.index][2])

BreedCompletes == pc = "evaluate" /\ pc' = "mutate"

\* C3: a completed breed step leaves exactly size candidates, and every
\* candidate whose fitness_rank was below elite_population_size before the
\* step is in the new generation with the same coordinates and fitness.
C3_BreedKeepsElite ==
    [][BreedCompletes =>
        /\ Len(points') = size
        /\ \A i \in 1..Len(points) :
              points[i].fitness_rank < elite_population_size =>
                 \E j \in 1..Len(points') :
                    /\ points'[j].coordinates = points[i].coordinates
                    /\ points'[j].fitness = points[i].fitness]_vars

\* a breed step just completed that carried elites over and bred children
C3_Witness ==
    /\ pc = "mutate" /\ pointnumber = 1
    /\ elite_population_size >= 1
    /\ elite_population_size < size
    /\ \E i, j \in 1..Len(points) : points[i].fitness # points[j].fitness

FitnessRanksPermute ==
    {points[i].fitness_rank : i \in 1..Len(points)} = 0..(size - 1)

FitnessRanksOrdered ==
    \A i, j \in 1..Len(points) :
        points[i].fitness_rank < points[j].fitness_rank =>
            points[i].fitness >= points[j].fitness

DiversityRanksPermuteOrdered ==
    /\ {points[i].diversity_rank : i \in 1..Len(points)} = 0..(size - 1)
    /\ \A i, j \in 1..Len(points) :
          points[i].diversity_rank < points[j].diversity_rank =>
              points[i].diversity >= points[j].diversity

Reevaluated == pc = "done" /\ objective_function.neg

CrossoverReturns == pc = "cross" /\ pc' \in {"select", "evaluate"}

\* C5: the split index crossover draws lies in 1..D-1, and the children are
\* A[0:k] ++ B[k:D] and B[0:k] ++ A[k:D].
C5_SplitInsideAndSpliced ==
    [][CrossoverReturns =>
        LET A == points[parent1 + 1].coordinates
            B == points[parent2 + 1].coordinates
            k == splitpoint'
        IN  /\ 1 <= k /\ k <= num_dimensions - 1
            /\ Len(children'[1].coordinates) = num_dimensions
            /\ Len(children'[2].coordinates) = num_dimensions
            /\ \A d \in 1..num_dimensions :
                  /\ children'[1].coordinates[d] = IF d <= k THEN A[d] ELSE B[d]
                  /\ children'[2].coordinates[d] = IF d <= k THEN B[d] ELSE A[d]]_vars

NonZeroEntries(w) == {i \in 1..Len(w) : w[i] # 0}

\* C6: weighted_choice over weights with exactly one non-zero entry returns
\* the item at that entry, whatever the threshold drawn.
C6_SingleNonZeroSelected ==
    pc = "returned" /\ Cardinality(NonZeroEntries(wcWeights)) = 1 =>
        \A i \in NonZeroEntries(wcWeights) : wcResult = i - 1

\* C7: the candidate minimize(f) returns carries f of its own coordinates as
\* its fitness, and no member of the final population has a smaller f.
C7_MinimizeReportsF ==
    Reevaluated =>
        /\ best_point.fitness = ObjectiveValue(objective_function.f,
                                               best_point.coordinates)
        /\ \E i \in 1..Len(points) : points[i] = best_point
        /\ \A i \in 1..Len(points) :
              ObjectiveValue(objective_function.f, best_point.coordinates)
                 <= ObjectiveValue(objective_function.f, points[i].coordinates)

\* minimize returned after at least one generation, with a non-zero fitness
\* and a member that is strictly worse
C7_Witness ==
    /\ Reevaluated /\ iterations >= 1
    /\ best_point.fitness # 0
    /\ \E i \in 1..Len(points) :
          ObjectiveValue(objective_function.f, points[i].coordinates)
             > best_point.fitness

\* 0 <= numerator/denominator <= 1
InUnitInterval(fraction) == 0 <= fraction[1] /\ fraction[1] <= fraction[2]

BadArguments ==
    /\ args # <<>>
    /\ \/ ~InUnitInterval(args.elite_fraction)
       \/ ~InUnitInterval(args.mutation_probability)
       \/ \E d \in 1..Len(args.boundaries) :
             args.boundaries[d][1] > args.boundaries[d][2]

\* C8: a Population(...) call with elite_fraction or mutation_probability
\* outside [0, 1], or with a supplied boundary whose lower exceeds its upper,
\* ends in the error, with no candidate created and no objective evaluated.
C8_BadArgumentsRaise ==
    BadArguments =>
        /\ pc = "error"
        /\ points = <<>> /\ size = 0
        /\ evaluated = {}

\* the call failed on elite_fraction = 1.5 alone
C8_Witness ==
    /\ pc = "error"
    /\ args.elite_fraction = <<3, 2>> /\ args.mutation_probability = <<1, 2>>
    /\ args.verbose = 0 /\ args.boundaries = <<>>

\* C9: converge(iterations) on a constructed Population comes to its end
\* after exactly that many iterate() calls, with num_iterations = 1 +
\* iterations, and no breed step aborts.
C9_ConvergeCompletes ==
    /\ [](pc # "aborted")
    /\ (pc = "converge" /\ iteration = 0)
          ~> (pc = "done" /\ num_iterations = 1 + iterations)

BreedJustCompleted == pc = "mutate" /\ pointnumber = 1

\* C10 as claimed: a breed step evaluates the objective on the children only,
\* size - elite_population_size times, and writes no elite's fitness.
C10_OnlyChildrenEvaluated ==
    BreedJustCompleted =>
        /\ Cardinality(evaluated) = size - elite_population_size
        /\ evaluated = (elite_population_size + 1)..size

\* C10 as amended: a breed step evaluates the objective on every member of
\* the new generation, size times, the carried-over elites included.
C10_WholeGenerationEvaluated ==
    BreedJustCompleted =>
        /\ Cardinality(evaluated) = size
        /\ evaluated = 1..size

\* a breed step just completed that carried at least one elite over
C10_Witness ==
    /\ BreedJustCompleted
    /\ elite_population_size >= 1
    /\ elite_population_size < size

====
